---- MODULE Spec2Model ----
(***************************************************************************)
(* Alocacao de cirurgias oncologicas sob tres recursos (orcamento, horas   *)
(* de sala, leitos de UTI): otimizar_cirurgias_pulp (PLI exata, PuLP+CBC)  *)
(* e resolver_simplex_guloso (heuristica gulosa).                          *)
(*                                                                         *)
(* Unidades: todas as grandezas reais da fonte sao inteiros em unidade     *)
(* fixa (gravidade e incidencia em fracoes decimais, tempo em fracoes de   *)
(* hora); a aritmetica e exata (sem arredondamento de ponto flutuante).    *)
(* O peso custo-beneficio gravidade/custo*10000 e racional: os pesos desse *)
(* criterio sao guardados sobre o denominador comum Produto(custo_r).      *)
(***************************************************************************)
EXTENDS Integers, Sequences, FiniteSets

VARIABLES
    df,              \* tabela de procedimentos do modulo (DataFrame: coluna -> valores)
    cenario,         \* [orcamento, horas_sala, leitos_uti, criterio] das chamadas
    pc,              \* "ocioso", "guloso_laco", "pulp_status"
    tabela,          \* tabela passada como argumento a resolver_simplex_guloso
    prob,            \* LpProblem construido por otimizar_cirurgias_pulp
    status,          \* LpStatus[prob.status]
    varValue,        \* x[i].varValue depois de prob.solve
    df_sorted,       \* linhas de tabela na ordem de sort_values('peso', ascending=False)
    idx,             \* posicao do laco guloso em df_sorted
    solucao,         \* lista de entradas da solucao gulosa
    usado,           \* orcamento_usado, tempo_usado, uti_usada, valor_objetivo
    res_pulp,        \* resultado de otimizar_cirurgias_pulp (retorno ou excecao)
    res_guloso,      \* resultado de resolver_simplex_guloso
    resolvido        \* o que prob.solve calculou: status, x, valor do objetivo

vars == <<df, cenario, pc, tabela, prob, status, varValue, df_sorted, idx,
          solucao, usado, res_pulp, res_guloso, resolvido>>

----------------------------------------------------------------------------
(* Limites do modelo *)

MaxPeso == 2
MaxCapacidade == 2

(* Constante do programa *)
Escala == 10000

Criterios == {"gravidade", "incidencia", "custo_beneficio"}

Nenhum == [tipo |-> "nenhum"]

----------------------------------------------------------------------------
(* Aritmetica auxiliar *)

Min2(a, b) == IF a <= b THEN a ELSE b

RECURSIVE Soma(_)
Soma(s) == IF s = <<>> THEN 0 ELSE Head(s) + Soma(Tail(s))

RECURSIVE Produto(_)
Produto(s) == IF s = <<>> THEN 1 ELSE Head(s) * Produto(Tail(s))

Escalar(c, x) == [i \in DOMAIN c |-> c[i] * x[i]]

NumLinhas(t) == Len(t.custo_r)

----------------------------------------------------------------------------
(* Pesos da funcao objetivo *)

\* mutante: a constante e somada a razao gravidade/custo em vez de multiplicada
PesoCustoBeneficio_Aditivo(t, k) ==
    [i \in 1..NumLinhas(t) |->
        t.gravidade[i] * (Produto(t.custo_r) \div t.custo_r[i]) + k * Produto(t.custo_r)]

\* df['gravidade'] / df['custo_r'] * k (k = 10000 na fonte), sobre o denominador
\* comum Produto(custo_r)
PesoCustoBeneficio(t, k) ==
    [i \in 1..NumLinhas(t) |->
        t.gravidade[i] * k * (Produto(t.custo_r) \div t.custo_r[i])]

\* mutante: o criterio incidencia le a coluna gravidade
Pesos_ColunaTrocada(t, criterio) ==
    IF criterio \in {"gravidade", "incidencia"} THEN t.gravidade
    ELSE PesoCustoBeneficio(t, Escala)

Pesos(t, criterio) ==
    IF criterio = "gravidade" THEN t.gravidade
    ELSE IF criterio = "incidencia" THEN t.incidencia_pe
    ELSE PesoCustoBeneficio(t, Escala)

----------------------------------------------------------------------------
(* otimizar_cirurgias_pulp: construcao do modelo *)

ModeloCom(t, criterio, sentido, ro, rt, ru) ==
    [ sentido   |-> sentido,
      n         |-> NumLinhas(t),
      objetivo  |-> Pesos(t, criterio),
      Orcamento |-> ro, Tempo |-> rt, UTI |-> ru ]

\* mutante: a restricao de tempo copia os coeficientes de custo
ConstruirModelo_TempoComCusto(t, orcamento, horas_sala, leitos_uti, criterio) ==
    ModeloCom(t, criterio, "max",
              [coef |-> t.custo_r, op |-> "<=", rhs |-> orcamento],
              [coef |-> t.custo_r, op |-> "<=", rhs |-> horas_sala],
              [coef |-> t.uti,     op |-> "<=", rhs |-> leitos_uti])

\* mutante: LpMinimize em vez de LpMaximize
ConstruirModelo_Minimiza(t, orcamento, horas_sala, leitos_uti, criterio) ==
    ModeloCom(t, criterio, "min",
              [coef |-> t.custo_r, op |-> "<=", rhs |-> orcamento],
              [coef |-> t.tempo_h, op |-> "<=", rhs |-> horas_sala],
              [coef |-> t.uti,     op |-> "<=", rhs |-> leitos_uti])

\* mutante: orcamento como desigualdade estrita (custo total < orcamento)
ConstruirModelo_OrcamentoEstrito(t, orcamento, horas_sala, leitos_uti, criterio) ==
    ModeloCom(t, criterio, "max",
              [coef |-> t.custo_r, op |-> "<=", rhs |-> orcamento - 1],
              [coef |-> t.tempo_h, op |-> "<=", rhs |-> horas_sala],
              [coef |-> t.uti,     op |-> "<=", rhs |-> leitos_uti])

\* mutante: restricao de UTI com o sentido invertido (>= leitos_uti)
ConstruirModelo_UTIInvertida(t, orcamento, horas_sala, leitos_uti, criterio) ==
    ModeloCom(t, criterio, "max",
              [coef |-> t.custo_r, op |-> "<=", rhs |-> orcamento],
              [coef |-> t.tempo_h, op |-> "<=", rhs |-> horas_sala],
              [coef |-> t.uti,     op |-> ">=", rhs |-> leitos_uti])

\* mutante: restricao de UTI com um leito a mais
ConstruirModelo_UTIMaisUm(t, orcamento, horas_sala, leitos_uti, criterio) ==
    ModeloCom(t, criterio, "max",
              [coef |-> t.custo_r, op |-> "<=", rhs |-> orcamento],
              [coef |-> t.tempo_h, op |-> "<=", rhs |-> horas_sala],
              [coef |-> t.uti,     op |-> "<=", rhs |-> leitos_uti + 1])

\* linhas 47-72: LpProblem(LpMaximize), variaveis inteiras x_i >= 0, objetivo e as
\* tres restricoes
ConstruirModelo(t, orcamento, horas_sala, leitos_uti, criterio) ==
    ModeloCom(t, criterio, "max",
              [coef |-> t.custo_r, op |-> "<=", rhs |-> orcamento],
              [coef |-> t.tempo_h, op |-> "<=", rhs |-> horas_sala],
              [coef |-> t.uti,     op |-> "<=", rhs |-> leitos_uti])

----------------------------------------------------------------------------
(* prob.solve(PULP_CBC_CMD(msg=0)): solucao exata da PLI construida.        *)
(* Busca exaustiva sobre as quantidades inteiras x_i >= 0; devolve todas as *)
(* solucoes otimas (o solver pode devolver qualquer uma delas).             *)

MaxDe(S) == CHOOSE m \in S : \A y \in S : y <= m
MinDe(S) == CHOOSE m \in S : \A y \in S : m <= y

Satisfaz(r, x) ==
    IF r.op = "<=" THEN Soma(Escalar(r.coef, x)) <= r.rhs
    ELSE Soma(Escalar(r.coef, x)) >= r.rhs

Viavel(p, x) ==
    Satisfaz(p.Orcamento, x) /\ Satisfaz(p.Tempo, x) /\ Satisfaz(p.UTI, x)

ValorObjetivo(p, x) == Soma(Escalar(p.objetivo, x))

\* maior q que a restricao r ainda admite para a variavel i com folga f
\* (nenhum quando r nao limita a variavel)
Cabe(r, i, f) == IF r.op = "<=" /\ r.coef[i] > 0 THEN {f \div r.coef[i]} ELSE {}

Limite(p, i, fo, ft, fu) ==
    MinDe(Cabe(p.Orcamento, i, fo) \cup Cabe(p.Tempo, i, ft) \cup Cabe(p.UTI, i, fu))

FolgaOk(r, f) == IF r.op = "<=" THEN f >= 0 ELSE f <= 0

SoMenorIgual(p) == p.Orcamento.op = "<=" /\ p.Tempo.op = "<=" /\ p.UTI.op = "<="

\* ordem de ramificacao: a variavel de maior limite fica por ultimo
Ordem(p) ==
    LET lim(i) == Limite(p, i, p.Orcamento.rhs, p.Tempo.rhs, p.UTI.rhs)
        ult == CHOOSE i \in 1..p.n : \A j \in 1..p.n : lim(j) <= lim(i)
    IN  SelectSeq([i \in 1..p.n |-> i], LAMBDA i : i # ult) \o <<ult>>

RECURSIVE Busca(_, _, _, _, _, _)
Busca(p, ord, pos, fo, ft, fu) ==
    IF pos > p.n
    THEN IF FolgaOk(p.Orcamento, fo) /\ FolgaOk(p.Tempo, ft) /\ FolgaOk(p.UTI, fu)
         THEN [v |-> 0, xs |-> {<<>>}]
         ELSE [v |-> -1, xs |-> {}]
    ELSE
      LET i == ord[pos]
          lim == Limite(p, i, fo, ft, fu)
          qs == IF pos = p.n /\ p.sentido = "max" /\ SoMenorIgual(p) /\ p.objetivo[i] > 0
                THEN (IF lim >= 0 /\ fo >= 0 /\ ft >= 0 /\ fu >= 0 THEN {lim} ELSE {})
                ELSE 0..lim
          filhos == { [q |-> q,
                       r |-> Busca(p, ord, pos + 1,
                                   fo - q * p.Orcamento.coef[i],
                                   ft - q * p.Tempo.coef[i],
                                   fu - q * p.UTI.coef[i])] : q \in qs }
          bons == { f \in filhos : f.r.v >= 0 }
          val(f) == p.objetivo[i] * f.q + f.r.v
          best == IF p.sentido = "max" THEN MaxDe({val(f) : f \in bons})
                  ELSE MinDe({val(f) : f \in bons})
      IN  IF bons = {} THEN [v |-> -1, xs |-> {}]
          ELSE [v |-> best,
                xs |-> UNION { { <<f.q>> \o s : s \in f.r.xs } :
                               f \in { g \in bons : val(g) = best } }]

Solucoes(p) ==
    LET ord == Ordem(p)
        b == Busca(p, ord, 1, p.Orcamento.rhs, p.Tempo.rhs, p.UTI.rhs)
        pos(i) == CHOOSE j \in 1..p.n : ord[j] = i
    IN  IF b.v < 0 THEN { [status |-> "Infeasible", x |-> <<>>] }
        ELSE { [status |-> "Optimal", x |-> [i \in 1..p.n |-> s[pos(i)]]] : s \in b.xs }

----------------------------------------------------------------------------
(* otimizar_cirurgias_pulp: extracao do resultado *)

Excecao(nome) == [tipo |-> "excecao", nome |-> nome]

\* linhas 82-127: no ramo Optimal, x[i].varValue() chama um float (varValue e
\* atributo de LpVariable) e levanta TypeError na primeira linha da tabela; com
\* a tabela vazia o laco nao roda e df_sol['Quantidade'] de um DataFrame sem
\* colunas levanta KeyError.
Extracao(t, st, x) ==
    IF st = "Optimal"
    THEN IF NumLinhas(t) >= 1 THEN Excecao("TypeError") ELSE Excecao("KeyError")
    ELSE [tipo |-> "retorno", status |-> st, solucao |-> "None", metricas |-> "None"]

----------------------------------------------------------------------------
(* resolver_simplex_guloso *)

\* df['peso'] = ... : acrescenta a coluna peso a tabela recebida
ComPeso(t, criterio) ==
    [c \in DOMAIN t \cup {"peso"} |-> IF c = "peso" THEN Pesos(t, criterio) ELSE t[c]]

\* sort_values('peso', ascending=False): linhas por peso decrescente; a ordem
\* entre pesos iguais nao e garantida (quicksort)
RECURSIVE OrdensDe(_, _)
OrdensDe(peso, S) ==
    IF S = {} THEN {<<>>}
    ELSE UNION { { <<i>> \o s : s \in OrdensDe(peso, S \ {i}) } :
                 i \in { j \in S : \A m \in S : peso[m] <= peso[j] } }

Ordenacoes(t) == OrdensDe(t.peso, 1..NumLinhas(t))

\* int(x / y) de Python: quociente truncado em direcao a zero
Trunc(x, y) == IF x >= 0 THEN x \div y ELSE -((-x) \div y)

\* mutante: o limite de leitos de UTI e ignorado
QtdMax_SemUTI(t, i, c, u) ==
    Min2((c.orcamento - u.orcamento_usado) \div t.custo_r[i],
         Trunc(c.horas_sala - u.tempo_usado, t.tempo_h[i]))

\* mutante: o quociente do tempo e arredondado para cima
QtdMax_TempoParaCima(t, i, c, u) ==
    LET max_por_orcamento == (c.orcamento - u.orcamento_usado) \div t.custo_r[i]
        max_por_tempo == Trunc(c.horas_sala - u.tempo_usado + t.tempo_h[i] - 1, t.tempo_h[i])
        m == Min2(max_por_orcamento, max_por_tempo)
    IN  IF t.uti[i] > 0
        THEN Min2(m, (c.leitos_uti - u.uti_usada) \div t.uti[i])
        ELSE m

\* mutante: no maximo uma unidade de cada procedimento
QtdMax_NoMaximoUm(t, i, c, u) ==
    LET max_por_orcamento == (c.orcamento - u.orcamento_usado) \div t.custo_r[i]
        max_por_tempo == Trunc(c.horas_sala - u.tempo_usado, t.tempo_h[i])
        m == Min2(1, Min2(max_por_orcamento, max_por_tempo))
    IN  IF t.uti[i] > 0
        THEN Min2(m, (c.leitos_uti - u.uti_usada) \div t.uti[i])
        ELSE m

\* qtd_max = int(min(max_por_orcamento, max_por_tempo, max_por_uti))
QtdMax(t, i, c, u) ==
    LET max_por_orcamento == (c.orcamento - u.orcamento_usado) \div t.custo_r[i]
        max_por_tempo == Trunc(c.horas_sala - u.tempo_usado, t.tempo_h[i])
        m == Min2(max_por_orcamento, max_por_tempo)
    IN  IF t.uti[i] > 0
        THEN Min2(m, (c.leitos_uti - u.uti_usada) \div t.uti[i])
        ELSE m

Entrada(t, i, q) ==
    [ ID |-> t.id[i], Quantidade |-> q, Gravidade |-> t.gravidade[i],
      Tempo_Total_h |-> q * t.tempo_h[i], Custo_Total |-> q * t.custo_r[i],
      Leitos_UTI |-> q * t.uti[i], Peso |-> t.peso[i] ]

Atualizado(t, i, q, u) ==
    [ orcamento_usado |-> u.orcamento_usado + q * t.custo_r[i],
      tempo_usado     |-> u.tempo_usado + q * t.tempo_h[i],
      uti_usada       |-> u.uti_usada + q * t.uti[i],
      valor_objetivo  |-> u.valor_objetivo + q * t.peso[i] ]

UsadoZero ==
    [orcamento_usado |-> 0, tempo_usado |-> 0, uti_usada |-> 0, valor_objetivo |-> 0]

Metricas(sol, u) ==
    [ valor_objetivo |-> u.valor_objetivo, orcamento_usado |-> u.orcamento_usado,
      tempo_usado |-> u.tempo_usado, uti_usada |-> u.uti_usada,
      total_cirurgias |-> Soma([j \in DOMAIN sol |-> sol[j].Quantidade]) ]

----------------------------------------------------------------------------
(* Entradas *)

\* duracoes e custos unitarios das linhas (positivos)
Duracoes == {1, 2}
Custos == {1, 2}

\* linhas validas do catalogo (custo e duracao > 0, uti em {0,1}); a incidencia
\* inverte a ordem da gravidade, para que os criterios ordenem de modo diferente
Procedimentos ==
    { [gravidade |-> g, incidencia_pe |-> MaxPeso + 1 - g,
       tempo_h |-> t, custo_r |-> c, uti |-> u] :
      g \in 1..MaxPeso, t \in Duracoes, c \in Custos, u \in {0, 1} }

TabelaDe(linhas) ==
    [ id            |-> [i \in DOMAIN linhas |-> i],
      gravidade     |-> [i \in DOMAIN linhas |-> linhas[i].gravidade],
      tempo_h       |-> [i \in DOMAIN linhas |-> linhas[i].tempo_h],
      custo_r       |-> [i \in DOMAIN linhas |-> linhas[i].custo_r],
      uti           |-> [i \in DOMAIN linhas |-> linhas[i].uti],
      incidencia_pe |-> [i \in DOMAIN linhas |-> linhas[i].incidencia_pe] ]

\* chave que ordena as linhas: a ordem das linhas do catalogo nao tem significado
Chave(l) == <<l.gravidade, l.tempo_h, l.custo_r, l.uti>>

RECURSIVE MenorOuIgual(_, _)
MenorOuIgual(a, b) ==
    \/ a = <<>>
    \/ Head(a) < Head(b)
    \/ Head(a) = Head(b) /\ MenorOuIgual(Tail(a), Tail(b))

Tabelas ==
    { TabelaDe(par) :
        par \in { q \in Procedimentos \X Procedimentos : MenorOuIgual(Chave(q[1]), Chave(q[2])) } }

Cenarios ==
    [ orcamento : -1..MaxCapacidade, horas_sala : -1..MaxCapacidade,
      leitos_uti : -1..MaxCapacidade, criterio : Criterios ]

\* exemplo didatico: tres procedimentos (peso, horas, uti) = (10,6,1), (8,3,1),
\* (6,2,0); sala com 6 horas e 1 leito de UTI. O exemplo nao tem custos: custo
\* unitario 1 e orcamento que nao limita (no maximo 3 unidades cabem em 6 horas).
TabelaDidatica ==
    [ id            |-> <<1, 2, 3>>,
      gravidade     |-> <<10, 8, 6>>,
      tempo_h       |-> <<6, 3, 2>>,
      custo_r       |-> <<1, 1, 1>>,
      uti           |-> <<1, 1, 0>>,
      incidencia_pe |-> <<1, 1, 1>> ]

CenariosDidaticos ==
    { [orcamento |-> b, horas_sala |-> 6, leitos_uti |-> 1, criterio |-> "gravidade"] :
      b \in {3, 10} }

\* catalogo de referencia: gravidade em decimos, tempo em decimos de hora, custo
\* em R$, incidencia em centesimos
TabelaReferencia ==
    [ id            |-> <<1, 2, 3, 4, 5, 6, 7, 8>>,
      gravidade     |-> <<85, 78, 92, 95, 98, 75, 65, 80>>,
      tempo_h       |-> <<35, 40, 50, 60, 55, 30, 25, 45>>,
      custo_r       |-> <<15000, 18000, 25000, 28000, 35000, 14000, 12000, 22000>>,
      uti           |-> <<1, 1, 1, 1, 1, 1, 0, 1>>,
      incidencia_pe |-> <<362, 1001, 1371, 736, 309, 520, 480, 615>> ]

\* cenario REAL (orcamento 500000, 480 h, 15 leitos) com as variacoes de
\* orcamento da analise de sensibilidade, e cenario PESSIMISTA
CenarioReal ==
    [orcamento |-> 500000, horas_sala |-> 4800, leitos_uti |-> 15, criterio |-> "incidencia"]

CenariosReferencia ==
    { [orcamento |-> (500000 * v) \div 10, horas_sala |-> 4800, leitos_uti |-> 15,
       criterio |-> cr] : v \in {8, 9, 10, 11}, cr \in {"incidencia", "gravidade"} }
    \cup
    { [orcamento |-> 300000, horas_sala |-> 3200, leitos_uti |-> 8, criterio |-> cr] :
      cr \in {"incidencia", "gravidade"} }

----------------------------------------------------------------------------
(* Estado inicial *)

InitCom(t, c) ==
    /\ df = t
    /\ cenario = c
    /\ pc = "ocioso"
    /\ tabela = t
    /\ prob = Nenhum
    /\ status = "None"
    /\ varValue = <<>>
    /\ df_sorted = <<>>
    /\ idx = 0
    /\ solucao = <<>>
    /\ usado = UsadoZero
    /\ res_pulp = Nenhum
    /\ res_guloso = Nenhum
    /\ resolvido = Nenhum

InitPequeno == \E t \in Tabelas, c \in Cenarios : InitCom(t, c)

InitDidatico == \E c \in CenariosDidaticos : InitCom(TabelaDidatica, c)

Init == InitPequeno \/ InitDidatico

InitReferencia == \E c \in CenariosReferencia : InitCom(TabelaReferencia, c)

----------------------------------------------------------------------------
(* Acoes *)

\* linhas 35-80: chamada de otimizar_cirurgias_pulp(df, ...), construcao do
\* modelo, prob.solve e leitura do status
otimizar_cirurgias_pulp_solve ==
    /\ pc = "ocioso"
    /\ res_guloso # Nenhum
    /\ res_pulp = Nenhum
    /\ prob' = ConstruirModelo(df, cenario.orcamento, cenario.horas_sala,
                               cenario.leitos_uti, cenario.criterio)
    /\ \E s \in Solucoes(prob') :
         /\ status' = s.status
         /\ varValue' = s.x
         /\ resolvido' = [ tipo |-> "resolvido", status |-> s.status, x |-> s.x,
                           valor |-> IF s.status = "Optimal"
                                     THEN ValorObjetivo(prob', s.x) ELSE 0 ]
    /\ pc' = "pulp_status"
    /\ UNCHANGED <<df, cenario, tabela, df_sorted, idx, solucao, usado,
                   res_pulp, res_guloso>>

\* linhas 82-127: extracao da solucao e retorno
otimizar_cirurgias_pulp_retorno ==
    /\ pc = "pulp_status"
    /\ res_pulp' = Extracao(df, status, varValue)
    /\ pc' = "ocioso"
    /\ prob' = Nenhum
    /\ status' = "None"
    /\ varValue' = <<>>
    /\ UNCHANGED <<df, cenario, tabela, df_sorted, idx, solucao, usado, res_guloso,
                   resolvido>>

\* linhas 146-170 (chamada com df.copy(), linhas 224-230): pesos, ordenacao e
\* inicializacao
resolver_simplex_guloso_inicio ==
    /\ pc = "ocioso"
    /\ res_guloso = Nenhum
    /\ res_pulp = Nenhum
    /\ tabela' = ComPeso(df, cenario.criterio)
    /\ df_sorted' \in Ordenacoes(tabela')
    /\ idx' = 1
    /\ solucao' = <<>>
    /\ usado' = UsadoZero
    /\ pc' = "guloso_laco"
    /\ UNCHANGED <<df, cenario, prob, status, varValue, res_pulp, res_guloso, resolvido>>

\* linhas 173-199: uma iteracao do laco guloso
resolver_simplex_guloso_laco ==
    /\ pc = "guloso_laco"
    /\ idx <= NumLinhas(tabela)
    /\ LET i == df_sorted[idx]
           qtd_max == QtdMax(tabela, i, cenario, usado)
       IN  IF qtd_max > 0
           THEN /\ solucao' = Append(solucao, Entrada(tabela, i, qtd_max))
                /\ usado' = Atualizado(tabela, i, qtd_max, usado)
           ELSE UNCHANGED <<solucao, usado>>
    /\ idx' = idx + 1
    /\ UNCHANGED <<df, cenario, pc, tabela, prob, status, varValue, df_sorted,
                   res_pulp, res_guloso, resolvido>>

\* linhas 201-207: retorno de (solucao, metricas)
resolver_simplex_guloso_retorno ==
    /\ pc = "guloso_laco"
    /\ idx > NumLinhas(tabela)
    /\ res_guloso' = [tipo |-> "retorno", solucao |-> solucao,
                      metricas |-> Metricas(solucao, usado)]
    /\ pc' = "ocioso"
    /\ df_sorted' = <<>>
    /\ idx' = 0
    /\ solucao' = <<>>
    /\ usado' = UsadoZero
    /\ UNCHANGED <<df, cenario, tabela, prob, status, varValue, res_pulp, resolvido>>

Next == resolver_simplex_guloso_inicio \/ resolver_simplex_guloso_laco \/ resolver_simplex_guloso_retorno \/ otimizar_cirurgias_pulp_solve \/ otimizar_cirurgias_pulp_retorno

Spec == Init /\ [][Next]_vars

SpecReferencia == InitReferencia /\ [][Next]_vars

----------------------------------------------------------------------------
(* Propriedades *)

EnvelopeValido(c) == c.orcamento >= 0 /\ c.horas_sala >= 0 /\ c.leitos_uti >= 0

CatalogoValido(t) ==
    \A i \in 1..NumLinhas(t) : t.custo_r[i] > 0 /\ t.tempo_h[i] > 0 /\ t.uti[i] \in {0, 1}

\* consumo de uma coluna de recurso pela alocacao x
Consumo(coluna, x) == Soma([i \in DOMAIN coluna |-> coluna[i] * x[i]])

\* as tres restricoes do enunciado, sobre o catalogo e o envelope
DentroDoEnvelope(t, c, x) ==
    /\ Consumo(t.custo_r, x) <= c.orcamento
    /\ Consumo(t.tempo_h, x) <= c.horas_sala
    /\ Consumo(t.uti, x) <= c.leitos_uti

\* peso do enunciado por criterio, sobre o denominador comum Produto(custo_r)
PesoDoCriterio(t, criterio, i) ==
    CASE criterio = "gravidade" -> t.gravidade[i] * Produto(t.custo_r)
      [] criterio = "incidencia" -> t.incidencia_pe[i] * Produto(t.custo_r)
      [] OTHER -> (t.gravidade[i] * Escala * Produto(t.custo_r)) \div t.custo_r[i]

ValorDoCriterio(t, criterio, x) ==
    Soma([i \in 1..NumLinhas(t) |-> PesoDoCriterio(t, criterio, i) * x[i]])

\* alocacoes inteiras nao negativas candidatas: com custo >= 1 nenhuma
\* quantidade viavel passa do orcamento
Alocacoes(t, c) == [1..NumLinhas(t) -> 0..c.orcamento]

Zeros(t) == [i \in 1..NumLinhas(t) |-> 0]

\* C1: sempre que o solver informa Optimal (catalogo valido, envelope nao
\* negativo), as quantidades x_i sao inteiros >= 0 e respeitam ao mesmo tempo
\* orcamento, horas de sala e leitos de UTI.
C1_RestricoesRespeitadas ==
    (resolvido # Nenhum /\ resolvido.status = "Optimal"
        /\ CatalogoValido(df) /\ EnvelopeValido(cenario))
    => /\ DOMAIN resolvido.x = 1..NumLinhas(df)
       /\ \A i \in 1..NumLinhas(df) : resolvido.x[i] \in Nat
       /\ DentroDoEnvelope(df, cenario, resolvido.x)

C1_Testemunha ==
    /\ resolvido # Nenhum /\ resolvido.status = "Optimal"
    /\ EnvelopeValido(cenario)
    /\ Soma(resolvido.x) >= 2
    /\ Consumo(df.custo_r, resolvido.x) = cenario.orcamento
    /\ Consumo(df.uti, resolvido.x) = cenario.leitos_uti

\* C2: a alocacao Optimal do solver exato e otima para a PLI: nenhuma outra
\* alocacao inteira nao negativa que respeite as tres restricoes tem valor
\* sum(w_i * x_i) maior, com w_i dado pelo criterio.
C2_OtimoGlobal ==
    (resolvido # Nenhum /\ resolvido.status = "Optimal")
    => \A y \in Alocacoes(df, cenario) :
         DentroDoEnvelope(df, cenario, y)
         => ValorDoCriterio(df, cenario.criterio, y)
              <= ValorDoCriterio(df, cenario.criterio, resolvido.x)

C2_Testemunha ==
    /\ resolvido # Nenhum /\ resolvido.status = "Optimal"
    /\ cenario.criterio = "incidencia"
    /\ \E y \in Alocacoes(df, cenario) :
         /\ DentroDoEnvelope(df, cenario, y)
         /\ 0 < ValorDoCriterio(df, cenario.criterio, y)
         /\ ValorDoCriterio(df, cenario.criterio, y)
              < ValorDoCriterio(df, cenario.criterio, resolvido.x)

C4_Dominancia ==
    (resolvido # Nenhum /\ res_guloso # Nenhum /\ EnvelopeValido(cenario))
    => /\ resolvido.status = "Optimal"
       /\ resolvido.valor >= res_guloso.metricas.valor_objetivo

C4_Testemunha ==
    /\ resolvido # Nenhum /\ res_guloso # Nenhum /\ EnvelopeValido(cenario)
    /\ resolvido.status = "Optimal"
    /\ res_guloso.metricas.valor_objetivo > 0
    /\ resolvido.valor > res_guloso.metricas.valor_objetivo

SoProcedimentosDeUTI(t) == \A i \in 1..NumLinhas(t) : t.uti[i] = 1

\* C5: com leitos_uti = 0 e catalogo so de procedimentos que exigem UTI, a
\* chamada termina e devolve um resultado com status Optimal (nem Infeasible
\* nem excecao), todas as quantidades 0 e valor e totais 0.
C5_Degenerado ==
    (res_pulp # Nenhum /\ SoProcedimentosDeUTI(df) /\ cenario.leitos_uti = 0
        /\ cenario.orcamento >= 0 /\ cenario.horas_sala >= 0)
    => /\ res_pulp.tipo = "retorno"
       /\ res_pulp.status = "Optimal"
       /\ resolvido.x = Zeros(df)
       /\ resolvido.valor = 0

\* C6: com catalogo valido e as tres capacidades >= 0, a alocacao nula satisfaz
\* as tres restricoes do modelo (valor 0) e o status nunca e Infeasible.
C6_Viabilidade ==
    (pc = "pulp_status" /\ CatalogoValido(df) /\ EnvelopeValido(cenario))
    => /\ Viavel(prob, Zeros(df))
       /\ ValorObjetivo(prob, Zeros(df)) = 0
       /\ status # "Infeasible"

C6_Testemunha ==
    /\ pc = "pulp_status"
    /\ cenario.orcamento = 0 /\ cenario.horas_sala = 0 /\ cenario.leitos_uti = 0
    /\ status = "Optimal"
    /\ varValue = Zeros(df)

\* C7: uma chamada com alguma capacidade negativa falha com InvalidEnvelopeError
\* na fronteira: nunca chega ao laco guloso nem ao solver e nunca devolve
\* alocacao ou status (nos dois pontos de entrada).
C7_EnvelopeInvalido ==
    ~EnvelopeValido(cenario)
    => /\ pc = "ocioso"
       /\ resolvido = Nenhum
       /\ res_guloso \in {Nenhum, Excecao("InvalidEnvelopeError")}
       /\ res_pulp \in {Nenhum, Excecao("InvalidEnvelopeError")}

\* valor otimo que o solver exato calcula para o catalogo t e o cenario c
\* (-1 quando o status nao e Optimal)
ValorOtimoDe(t, c) ==
    LET p == ConstruirModelo(t, c.orcamento, c.horas_sala, c.leitos_uti, c.criterio)
        s == CHOOSE r \in Solucoes(p) : TRUE
    IN  IF s.status = "Optimal" THEN ValorObjetivo(p, s.x) ELSE -1

\* cenarios que aumentam uma unica capacidade de c, mantidas as outras duas
ComUmaCapacidadeMaior(c) ==
    UNION { { [c EXCEPT !.orcamento = @ + d], [c EXCEPT !.horas_sala = @ + d],
              [c EXCEPT !.leitos_uti = @ + d] } : d \in 1..2 }

\* C8: aumentar uma das tres capacidades, mantidas as outras duas, nunca diminui
\* o valor otimo do solver exato (mesmo catalogo e criterio).
C8_Monotonia ==
    (pc = "pulp_status" /\ status = "Optimal")
    => \A c2 \in ComUmaCapacidadeMaior(cenario) :
         ValorOtimoDe(df, c2) >= ValorObjetivo(prob, varValue)

C8_Testemunha ==
    /\ pc = "pulp_status" /\ status = "Optimal"
    /\ ValorObjetivo(prob, varValue) > 0
    /\ \E c2 \in ComUmaCapacidadeMaior(cenario) :
         ValorOtimoDe(df, c2) > ValorObjetivo(prob, varValue)
    /\ \E c2 \in ComUmaCapacidadeMaior(cenario) :
         ValorOtimoDe(df, c2) = ValorObjetivo(prob, varValue)

\* C9: depois de qualquer chamada, a tabela passada como argumento tem as mesmas
\* colunas e os mesmos valores de antes da chamada (a copia de df).
C9_TabelaIntacta == tabela = df

\* C10: no catalogo de referencia com orcamento 500000, 480 horas, 15 leitos e
\* criterio incidencia, a alocacao otima tem total de cirurgias > 0, usa ao menos
\* um dos tres recursos ate a capacidade e mantem custo, horas e UTI dentro dos
\* limites.
C10_CenarioReal ==
    (df = TabelaReferencia /\ cenario = CenarioReal /\ resolvido # Nenhum)
    => /\ resolvido.status = "Optimal"
       /\ Soma(resolvido.x) > 0
       /\ DentroDoEnvelope(df, cenario, resolvido.x)
       /\ \/ Consumo(df.custo_r, resolvido.x) = cenario.orcamento
          \/ Consumo(df.tempo_h, resolvido.x) = cenario.horas_sala
          \/ Consumo(df.uti, resolvido.x) = cenario.leitos_uti

C10_Testemunha ==
    /\ df = TabelaReferencia /\ cenario = CenarioReal
    /\ resolvido # Nenhum
    /\ resolvido.status = "Optimal"
    /\ Soma(resolvido.x) > 0

\* constantes positivas que substituem 10000 no peso custo-beneficio
OutrasConstantes == {1, 7, 25000}

\* laco guloso (linhas 173-199) como funcao: entradas (ID, Quantidade) a partir
\* da posicao pos da ordem ord, com os acumuladores u
RECURSIVE GulosoDe(_, _, _, _, _)
GulosoDe(t, ord, c, pos, u) ==
    IF pos > Len(ord) THEN <<>>
    ELSE LET i == ord[pos]
             q == QtdMax(t, i, c, u)
         IN  IF q > 0
             THEN <<[ID |-> t.id[i], Quantidade |-> q]>>
                  \o GulosoDe(t, ord, c, pos + 1, Atualizado(t, i, q, u))
             ELSE GulosoDe(t, ord, c, pos + 1, u)

Quantidades(sol) == [j \in DOMAIN sol |-> [ID |-> sol[j].ID, Quantidade |-> sol[j].Quantidade]]

\* valor do objetivo guloso das entradas sol com os pesos da tabela t
ValorGuloso(t, sol) ==
    Soma([j \in DOMAIN sol |->
            sol[j].Quantidade * t.peso[CHOOSE i \in 1..NumLinhas(t) : t.id[i] = sol[j].ID]])

\* a tabela do guloso e o modelo do solver com a constante k no lugar de 10000
TabelaComConstante(t, k) == [t EXCEPT !.peso = PesoCustoBeneficio(t, k)]
ModeloComConstante(p, t, k) == [p EXCEPT !.objetivo = PesoCustoBeneficio(t, k)]

\* C11: no criterio custo-beneficio, trocar a constante 10000 por outra
\* constante positiva k nao muda o conjunto de alocacoes otimas do solver exato
\* nem a ordenacao por peso e as quantidades da heuristica gulosa; so o valor
\* do objetivo muda, pelo fator k/10000 (o valor e a constante vezes o valor
\* calculado com a constante 1).
C11_InvarianciaDeEscala ==
    cenario.criterio = "custo_beneficio"
    => \A k \in OutrasConstantes :
         /\ pc = "pulp_status"
            => LET pk == ModeloComConstante(prob, df, k)
               IN  /\ Solucoes(pk) = Solucoes(prob)
                   /\ status = "Optimal"
                      => LET v1 == ValorObjetivo(ModeloComConstante(prob, df, 1), varValue)
                         IN  /\ ValorObjetivo(prob, varValue) = Escala * v1
                             /\ ValorObjetivo(pk, varValue) = k * v1
         /\ (pc = "guloso_laco" /\ idx > NumLinhas(tabela))
            => LET tk == TabelaComConstante(tabela, k)
                   sk == GulosoDe(tk, df_sorted, cenario, 1, UsadoZero)
               IN  /\ Ordenacoes(tk) = Ordenacoes(tabela)
                   /\ sk = Quantidades(solucao)
                   /\ LET v1 == ValorGuloso(TabelaComConstante(tabela, 1), sk)
                      IN  /\ usado.valor_objetivo = Escala * v1
                          /\ ValorGuloso(tk, sk) = k * v1

C11_Testemunha ==
    /\ cenario.criterio = "custo_beneficio"
    /\ pc = "pulp_status" /\ status = "Optimal"
    /\ Soma(varValue) >= 2
    /\ prob.objetivo[1] # prob.objetivo[2]
    /\ res_guloso.metricas.total_cirurgias >= 2
    /\ Len(res_guloso.solucao) = 2

\* linha da tabela t com o identificador da entrada e
LinhaDe(t, e) == CHOOSE i \in 1..NumLinhas(t) : t.id[i] = e.ID

\* soma, sobre as entradas registradas, de quantidade * coluna da linha
SomaDasEntradas(t, sol, coluna) ==
    Soma([j \in DOMAIN sol |-> sol[j].Quantidade * t[coluna][LinhaDe(t, sol[j])]])

\* acumuladores u dentro do envelope c, quantidades inteiras >= 1 e
\* acumuladores iguais as somas sobre as entradas registradas
GulosoConsistente(t, c, sol, u) ==
    /\ u.orcamento_usado <= c.orcamento
    /\ u.tempo_usado <= c.horas_sala
    /\ u.uti_usada <= c.leitos_uti
    /\ \A j \in DOMAIN sol : sol[j].Quantidade \in Nat /\ sol[j].Quantidade >= 1
    /\ u.valor_objetivo = SomaDasEntradas(t, sol, "peso")
    /\ u.orcamento_usado = SomaDasEntradas(t, sol, "custo_r")
    /\ u.tempo_usado = SomaDasEntradas(t, sol, "tempo_h")
    /\ u.uti_usada = SomaDasEntradas(t, sol, "uti")

\* C12: com capacidades nao negativas, depois de cada iteracao do laco guloso
\* (e nas metricas devolvidas) orcamento_usado <= orcamento, tempo_usado <=
\* horas_sala, uti_usada <= leitos_uti, toda quantidade registrada e um inteiro
\* >= 1, e valor, orcamento, tempo e UTI acumulados sao as somas de quantidade
\* vezes peso, custo, duracao e uti sobre as entradas registradas.
C12_InvarianteGuloso ==
    EnvelopeValido(cenario)
    => /\ pc = "guloso_laco" => GulosoConsistente(tabela, cenario, solucao, usado)
       /\ res_guloso # Nenhum
          => GulosoConsistente(tabela, cenario, res_guloso.solucao, res_guloso.metricas)

C12_Testemunha ==
    /\ EnvelopeValido(cenario)
    /\ pc = "guloso_laco" /\ idx = 3
    /\ Len(solucao) = 2
    /\ usado.tempo_usado = cenario.horas_sala
    /\ usado.uti_usada = cenario.leitos_uti
    /\ usado.valor_objetivo > 0

\* recursos que impedem mais uma unidade do procedimento i depois do consumo u
Impedimentos(t, c, u, i) ==
    (IF u.orcamento_usado + t.custo_r[i] > c.orcamento THEN {"orcamento"} ELSE {})
    \cup (IF u.tempo_usado + t.tempo_h[i] > c.horas_sala THEN {"tempo"} ELSE {})
    \cup (IF t.uti[i] = 1 /\ u.uti_usada + 1 > c.leitos_uti THEN {"uti"} ELSE {})

\* C13: quando resolver_simplex_guloso termina num envelope de capacidades nao
\* negativas, nenhum procedimento do catalogo pode receber mais uma unidade sem
\* estourar orcamento, horas de sala ou leitos de UTI; em particular, o
\* resultado vazio so e devolvido quando nenhuma unidade de nenhum
\* procedimento cabe no envelope.
C13_Maximalidade ==
    (res_guloso # Nenhum /\ EnvelopeValido(cenario))
    => /\ \A i \in 1..NumLinhas(df) :
            Impedimentos(df, cenario, res_guloso.metricas, i) # {}
       /\ res_guloso.solucao = <<>>
          => \A i \in 1..NumLinhas(df) : Impedimentos(df, cenario, UsadoZero, i) # {}

C13_Testemunha ==
    /\ res_guloso # Nenhum /\ EnvelopeValido(cenario)
    /\ Len(res_guloso.solucao) = 1
    /\ res_guloso.metricas.total_cirurgias >= 1
    /\ \E i \in 1..NumLinhas(df) :
         /\ i # LinhaDe(df, res_guloso.solucao[1])
         /\ Impedimentos(df, cenario, UsadoZero, i) = {}
         /\ Impedimentos(df, cenario, res_guloso.metricas, i) = {"uti"}

====
